---- MODULE Spec2Model ----
(***************************************************************************)
(* Model of the MAX6675 thermocouple driver (m6675.py): class Max6675,     *)
(* a gpiozero SPIDevice whose three read-only properties raw_value,        *)
(* temperature and is_connected each clock one 16-bit word out of the      *)
(* converter and decode it.                                                *)
(*                                                                         *)
(* Python values are modelled as records [kind, m, e]:                     *)
(*   int n    -> [kind |-> "int",   m |-> n, e |-> 0]                      *)
(*   bool b   -> [kind |-> "bool",  m |-> 1 or 0, e |-> 0]                 *)
(*   float    -> [kind |-> "float", m |-> M, e |-> E], the binary64 value  *)
(*               M * 2^E (exact: every mantissa here is below 2^53)        *)
(*   None     -> [kind |-> "none",  m |-> 0, e |-> 0]                      *)
(***************************************************************************)
EXTENDS Integers, Naturals, Sequences, FiniteSets, TLC

\* ---------------------------------------------------------------------
\* Bounds
\* ---------------------------------------------------------------------

\* Largest number of property accesses made on one instance.
MaxCalls == 3

\* ---------------------------------------------------------------------
\* Program and bus constants
\* ---------------------------------------------------------------------

\* Bits per SPI word (gpiozero's bits_per_word default): the bus moves bytes.
BitsPerWord == 8

\* Number of words of one transaction: self._spi.read(2).
ReadLen == 2

\* Mask of bit D2, the open-thermocouple detector: value & 4.
FaultMask == 4

\* Number of status bits discarded: value >> 3.
StatusBits == 3

\* The SPI clock mode written by the constructor.
Mode0 == 0

\* The clock modes an SPI interface can be in (CPOL, CPHA).
ClockModes == 0..3

\* All values of one SPI word.
Bytes == 0..(2^BitsPerWord - 1)

\* The bytes the sampled converter puts on the line in the lifecycle
\* specification: every combination of bit 7 (D15 of the word) and bit 2
\* (D2, the fault flag) of a byte, with all-zero and all-one data bits.
SampleBytes == {0, 4, 123, 127, 128, 251, 255}

\* ---------------------------------------------------------------------
\* Python values
\* ---------------------------------------------------------------------

None == [kind |-> "none", m |-> 0, e |-> 0]

IntVal(n) == [kind |-> "int", m |-> n, e |-> 0]

BoolVal(b) == [kind |-> "bool", m |-> IF b THEN 1 ELSE 0, e |-> 0]

FloatVal(mant, exp) == [kind |-> "float", m |-> mant, e |-> exp]

\* The literal 0.25 = 1 * 2^-2.
Quarter == FloatVal(1, -2)

\* int * float: the int is converted to a float (exact below 2^53) and the
\* product of the mantissas is again below 2^53, so no rounding happens.
IntTimesFloat(n, f) == FloatVal(n * f.m, f.e)

\* ---------------------------------------------------------------------
\* Integer bit operations of Python (non-negative operands)
\* ---------------------------------------------------------------------

RECURSIVE BitAnd(_, _)
BitAnd(x, y) ==
    IF x = 0 \/ y = 0 THEN 0
    ELSE (IF x % 2 = 1 /\ y % 2 = 1 THEN 1 ELSE 0) + 2 * BitAnd(x \div 2, y \div 2)

RECURSIVE BitOr(_, _)
BitOr(x, y) ==
    IF x = 0 THEN y
    ELSE IF y = 0 THEN x
    ELSE (IF x % 2 = 1 \/ y % 2 = 1 THEN 1 ELSE 0) + 2 * BitOr(x \div 2, y \div 2)

Shl(x, n) == x * 2^n

Shr(x, n) == x \div 2^n

\* ---------------------------------------------------------------------
\* State
\* ---------------------------------------------------------------------

VARIABLES
    closed,      \* the instance has been closed (self._spi released)
    clock_mode,  \* self._spi.clock_mode
    line,        \* the words the converter shifts out on the next transaction
    reads,       \* transactions the SPI interface has served
    calls,       \* property accesses made on the instance
    faults,      \* ThermocoupleErrors raised so far
    op,          \* the last operation called
    outcome,     \* how it ended: "ok" or the exception raised
    result,      \* the value it returned (None when it raised)
    raw_bytes    \* the words of the last transaction

vars == <<closed, clock_mode, line, reads, calls, faults, op, outcome, result, raw_bytes>>

\* ---------------------------------------------------------------------
\* The SPI interface and the SPIDevice base class
\* ---------------------------------------------------------------------

\* self._spi.read(n): one transaction clocking n words off the line.
SpiRead(ln, n) == SubSeq(ln, 1, n)

\* SPIDevice._words_to_int(words): the words are or-ed together, the first
\* one shifted highest, and the result is masked to the expected width.
RECURSIVE OrWords(_)
OrWords(words) ==
    IF words = <<>> THEN 0
    ELSE BitOr(Shl(Head(words), BitsPerWord * (Len(words) - 1)), OrWords(Tail(words)))

_words_to_int(words) ==
    BitAnd(OrWords(words), 2^(Len(words) * BitsPerWord) - 1)

\* Device._check_open(): TRUE when the call may proceed, FALSE when it
\* raises DeviceClosed.
_check_open(isClosed) == ~isClosed

\* ---------------------------------------------------------------------
\* Max6675
\* ---------------------------------------------------------------------

\* What a property access yields: how it ended, the value returned, the
\* words of the transactions it made, and the device state it leaves.
Access(oc, val, bytes, nreads, isClosed, mode) ==
    [outcome |-> oc, value |-> val, bytes |-> bytes, nreads |-> nreads,
     closed |-> isClosed, clock_mode |-> mode]

\* __init__ without the assignment of clock_mode: the interface keeps the
\* mode it came up in.
init_KeepsMode(mode) == mode

\* Max6675.__init__: the clock mode of the interface after construction,
\* given the mode the interface came up in.
__init__(mode) == Mode0

\* raw_value without the _check_open() call.
raw_value_NoCheckOpen(isClosed, mode, ln) ==
    LET words == SpiRead(ln, ReadLen)
    IN  Access("ok", IntVal(_words_to_int(words)), words, 1, isClosed, mode)

\* raw_value handing the words to _words_to_int in reverse order.
raw_value_Swapped(isClosed, mode, ln) ==
    IF ~_check_open(isClosed)
    THEN Access("DeviceClosed", None, <<>>, 0, isClosed, mode)
    ELSE LET words == SpiRead(ln, ReadLen)
         IN  Access("ok", IntVal(_words_to_int(<<words[2], words[1]>>)), words, 1,
                    isClosed, mode)

\* Max6675.raw_value
raw_value(isClosed, mode, ln) ==
    IF ~_check_open(isClosed)
    THEN Access("DeviceClosed", None, <<>>, 0, isClosed, mode)
    ELSE LET words == SpiRead(ln, ReadLen)
         IN  Access("ok", IntVal(_words_to_int(words)), words, 1, isClosed, mode)

\* temperature shifting out two status bits instead of three.
temperature_Shift2(isClosed, mode, ln) ==
    LET r == raw_value(isClosed, mode, ln)
    IN  IF r.outcome # "ok" THEN r
        ELSE LET value == r.value.m
             IN  IF BitAnd(value, FaultMask) # 0
                 THEN [r EXCEPT !.outcome = "ThermocoupleError", !.value = None]
                 ELSE [r EXCEPT !.value = IntTimesFloat(Shr(value, 2), Quarter)]

\* temperature testing bit D1 (mask 2) instead of bit D2.
temperature_Mask2(isClosed, mode, ln) ==
    LET r == raw_value(isClosed, mode, ln)
    IN  IF r.outcome # "ok" THEN r
        ELSE LET value == r.value.m
             IN  IF BitAnd(value, 2) # 0
                 THEN [r EXCEPT !.outcome = "ThermocoupleError", !.value = None]
                 ELSE [r EXCEPT !.value = IntTimesFloat(Shr(value, StatusBits), Quarter)]

\* temperature evaluating self.raw_value a second time for the data bits.
temperature_ReadsTwice(isClosed, mode, ln) ==
    LET r == raw_value(isClosed, mode, ln)
    IN  IF r.outcome # "ok" THEN r
        ELSE LET value == r.value.m
             IN  IF BitAnd(value, FaultMask) # 0
                 THEN [r EXCEPT !.outcome = "ThermocoupleError", !.value = None]
                 ELSE LET again == raw_value(isClosed, mode, ln)
                          celsius == IntTimesFloat(Shr(again.value.m, StatusBits), Quarter)
                      IN  [r EXCEPT !.value = celsius, !.nreads = r.nreads + again.nreads]

\* temperature closing the device before it raises ThermocoupleError.
temperature_ClosesOnFault(isClosed, mode, ln) ==
    LET r == raw_value(isClosed, mode, ln)
    IN  IF r.outcome # "ok" THEN r
        ELSE LET value == r.value.m
             IN  IF BitAnd(value, FaultMask) # 0
                 THEN [r EXCEPT !.outcome = "ThermocoupleError", !.value = None,
                                !.closed = TRUE]
                 ELSE [r EXCEPT !.value = IntTimesFloat(Shr(value, StatusBits), Quarter)]

\* Max6675.temperature
temperature(isClosed, mode, ln) ==
    LET r == raw_value(isClosed, mode, ln)
    IN  IF r.outcome # "ok" THEN r
        ELSE LET value == r.value.m
             IN  IF BitAnd(value, FaultMask) # 0
                 THEN [r EXCEPT !.outcome = "ThermocoupleError", !.value = None]
                 ELSE LET temp_data == Shr(value, StatusBits)
                          celsius == IntTimesFloat(temp_data, Quarter)
                      IN  [r EXCEPT !.value = celsius]

\* is_connected with the comparison inverted.
is_connected_Inverted(isClosed, mode, ln) ==
    LET r == raw_value(isClosed, mode, ln)
    IN  IF r.outcome # "ok" THEN r
        ELSE [r EXCEPT !.value = BoolVal(BitAnd(r.value.m, FaultMask) # 0)]

\* Max6675.is_connected
is_connected(isClosed, mode, ln) ==
    LET r == raw_value(isClosed, mode, ln)
    IN  IF r.outcome # "ok" THEN r
        ELSE [r EXCEPT !.value = BoolVal(BitAnd(r.value.m, FaultMask) = 0)]

\* ---------------------------------------------------------------------
\* Actions
\* ---------------------------------------------------------------------

\* The caller evaluates one property; a is what the property yields.
Call(name, a) ==
    /\ calls < MaxCalls
    /\ calls' = calls + 1
    /\ op' = name
    /\ outcome' = a.outcome
    /\ result' = a.value
    /\ raw_bytes' = a.bytes
    /\ reads' = reads + a.nreads
    /\ closed' = a.closed
    /\ clock_mode' = a.clock_mode
    /\ faults' = IF a.outcome = "ThermocoupleError" THEN faults + 1 ELSE faults
    /\ UNCHANGED line

GetRawValue == Call("raw_value", raw_value(closed, clock_mode, line))

GetTemperature == Call("temperature", temperature(closed, clock_mode, line))

GetIsConnected == Call("is_connected", is_connected(closed, clock_mode, line))

\* Device.close(): releases the SPI interface; closing twice is harmless.
Close ==
    /\ ~closed
    /\ closed' = TRUE
    /\ op' = "close"
    /\ outcome' = "ok"
    /\ result' = None
    /\ UNCHANGED <<clock_mode, line, reads, calls, faults, raw_bytes>>

\* The converter finishes a conversion: the word it will shift out changes.
Sample ==
    /\ \E b0 \in SampleBytes, b1 \in SampleBytes :
          /\ <<b0, b1>> # line
          /\ line' = <<b0, b1>>
    /\ UNCHANGED <<closed, clock_mode, reads, calls, faults, op, outcome, result, raw_bytes>>

\* ---------------------------------------------------------------------
\* Specifications
\* ---------------------------------------------------------------------

\* The state after Max6675(**spi_args) on an interface that came up in any
\* clock mode.
Constructed(mode) ==
    /\ closed = FALSE
    /\ clock_mode = __init__(mode)
    /\ reads = 0
    /\ calls = 0
    /\ faults = 0
    /\ op = "none"
    /\ outcome = "none"
    /\ result = None
    /\ raw_bytes = <<>>

\* Lifecycle: a sampled converter, any interleaving of accesses and a close.
Init ==
    /\ \E mode \in ClockModes : Constructed(mode)
    /\ \E b0 \in SampleBytes, b1 \in SampleBytes : line = <<b0, b1>>

Next == GetRawValue \/ GetTemperature \/ GetIsConnected \/ Close \/ Sample

Spec == Init /\ [][Next]_vars

\* Decoding: the converter holds any one of the 65536 words and a fresh
\* instance decodes it with one property access.
InitDecode ==
    /\ \E mode \in ClockModes : Constructed(mode)
    /\ \E b0 \in Bytes, b1 \in Bytes : line = <<b0, b1>>

NextDecode ==
    /\ calls = 0
    /\ (GetRawValue \/ GetTemperature \/ GetIsConnected)

SpecDecode == InitDecode /\ [][NextDecode]_vars

\* ---------------------------------------------------------------------
\* Reference arithmetic of the properties (plain division and remainder,
\* independent of the bit operations above)
\* ---------------------------------------------------------------------

\* The 16-bit word made of two bytes, first byte high.
WordOf(bytes) == bytes[1] * 256 + bytes[2]

\* The word the converter currently holds.
LineWord == WordOf(line)

\* Bit 2 of v is set.
Bit2Set(v) == (v \div 4) % 2 = 1

\* A property access has just been made (the step is one of the Get actions).
Accessed == calls' = calls + 1

\* ---------------------------------------------------------------------
\* Properties
\* ---------------------------------------------------------------------

C2_FaultBitRaisesThermocoupleError ==
    (op = "temperature" /\ Bit2Set(LineWord)) =>
        /\ outcome = "ThermocoupleError"
        /\ result = None

\* C2 witness: the word 0x0324 (data bits set, fault bit set) has raised.
C2_Witness ==
    /\ op = "temperature"
    /\ LineWord = 804
    /\ outcome = "ThermocoupleError"

\* C3: for every 16-bit raw value v, is_connected returns (v & 4) == 0,
\* never raises ThermocoupleError, and is the negation of the condition
\* under which temperature raises ThermocoupleError on the same v.
C3_IsConnectedIsNegatedFault ==
    op = "is_connected" =>
        /\ outcome = "ok"
        /\ result = BoolVal(~Bit2Set(LineWord))
        /\ (result = BoolVal(TRUE)) <=>
               (temperature(FALSE, clock_mode, line).outcome # "ThermocoupleError")

\* C3 witness: is_connected has answered False for a word with bit 2 set.
C3_Witness ==
    /\ op = "is_connected"
    /\ LineWord = 804
    /\ result = BoolVal(FALSE)

\* C4: for every pair of bytes [b0, b1] of one read, raw_value returns
\* (b0 << 8) | b1.
C4_RawValueIsBigEndian ==
    op = "raw_value" =>
        /\ outcome = "ok"
        /\ result = IntVal(line[1] * 256 + line[2])

\* C4 witness: the bytes [0x01, 0x02] have been read as 0x0102.
C4_Witness ==
    /\ op = "raw_value"
    /\ line = <<1, 2>>
    /\ result = IntVal(258)

\* C5: for every 16-bit raw value with bit 2 clear (bit 15 set included),
\* the temperature returned is a multiple of 0.25 in [0.0, 1023.75]: the
\* magnitude it is computed from lies in 0..4095.
C5_TemperatureWithin12Bits ==
    (op = "temperature" /\ ~Bit2Set(LineWord)) =>
        /\ outcome = "ok"
        /\ result.kind = "float"
        /\ result.e = -2
        /\ result.m \in 0..4095

\* C6: bit 15 of the raw value is ignored by temperature: a word with bit 2
\* clear decodes to the same temperature as the word with bit 15 cleared,
\* and 0xFFFB decodes to 4095 * 0.25.
C6_Bit15Ignored ==
    (op = "temperature" /\ ~Bit2Set(LineWord)) =>
        /\ outcome = "ok"
        /\ result = temperature(FALSE, clock_mode, <<line[1] % 128, line[2]>>).value
        /\ (LineWord = 65531 => result = FloatVal(4095, -2))

\* C7: once the instance is closed it stays closed, and every later
\* property access raises DeviceClosed without touching the bus.
C7_ClosedIsTerminal ==
    [][closed =>
          /\ closed'
          /\ Accessed => (outcome' = "DeviceClosed" /\ result' = None /\ reads' = reads)]_vars

\* C7 witness: is_connected has raised DeviceClosed on a closed instance
\* that had served a read before.
C7_Witness ==
    /\ closed
    /\ reads > 0
    /\ op = "is_connected"
    /\ outcome = "DeviceClosed"

\* What each property returns for the word v.
Expected(name, v) ==
    IF name = "raw_value" THEN IntVal(v)
    ELSE IF name = "is_connected" THEN BoolVal(~Bit2Set(v))
    ELSE IF Bit2Set(v) THEN None
    ELSE FloatVal(v \div 8, -2)

\* C8: on an open instance every property access performs exactly one
\* read of exactly 2 bytes, its result comes from the bytes of that read
\* and from nothing read earlier, and after n accesses the interface has
\* served n reads.
C8_OneFreshReadPerAccess ==
    /\ [](~closed => reads = calls)
    /\ [][(Accessed /\ ~closed) =>
             /\ reads' = reads + 1
             /\ Len(raw_bytes') = 2
             /\ raw_bytes' = line
             /\ result' = Expected(op', WordOf(line))]_vars

\* C8 witness: three accesses on an open instance, three reads, the last
\* one of a word other than the converter's current one.
C8_Witness ==
    /\ ~closed
    /\ calls = 3
    /\ reads = 3
    /\ op = "temperature"
    /\ raw_bytes # line

\* C9: construction sets the clock mode to 0 and no operation changes it:
\* an open instance is always in clock mode 0.
C9_ClockModeZero ==
    ~closed => clock_mode = 0

\* C9 witness: an open instance after accesses of two kinds.
C9_Witness ==
    /\ ~closed
    /\ clock_mode = 0
    /\ calls >= 2
    /\ op = "raw_value"

\* C10: a ThermocoupleError changes no driver state (the instance stays
\* open, in clock mode 0), and a later temperature access whose fresh word
\* has bit 2 clear returns that word's temperature.
C10_FaultIsRecoverable ==
    [][/\ (Accessed /\ outcome' = "ThermocoupleError") =>
              (~closed' /\ clock_mode' = clock_mode /\ clock_mode' = 0)
       /\ (Accessed /\ faults > 0 /\ ~closed /\ op' = "temperature" /\ ~Bit2Set(LineWord)) =>
              (outcome' = "ok" /\ result' = FloatVal(LineWord \div 8, -2))]_vars

\* C10 witness: a temperature has been returned after an earlier fault.
C10_Witness ==
    /\ faults > 0
    /\ ~closed
    /\ op = "temperature"
    /\ outcome = "ok"
    /\ result = FloatVal(WordOf(raw_bytes) \div 8, -2)

====
